---- MODULE Spec2Model ----
(***************************************************************************)
(* State-machine model of two parts of application-services:               *)
(*   - sync15-adapter/src/sync.rs : synchronize() and the Store trait      *)
(*   - fxa-rust-client/src/http_client/mod.rs : FxAClient                  *)
(* One call runs at a time (both are synchronous, blocking functions);     *)
(* `op` names the call in progress and `pc` its position in the code.      *)
(***************************************************************************)
EXTENDS Integers, Sequences, FiniteSets, TLC

\* ------------------------------------------------------------------------
\* Bounds of the model
\* ------------------------------------------------------------------------
\* server timestamps are 0..MaxTs
MaxTs == 2
\* record ids are 1..NumIds
NumIds == 2

\* key-fetch and session tokens are Token(1)..Token(NumTokens)
NumTokens == 1
\* the account keys the server wraps are Secret(1)..Secret(NumSecrets)
NumSecrets == 1
\* key pairs are numbered 1..NumKeyPairs
NumKeyPairs == 2

\* contexts built in one run of the context builders
MaxContexts == 2

Timestamps == 0..MaxTs
Ids == 1..NumIds

VARIABLES
  op,                  \* call in progress: "none", "synchronize", ...
  pc,                  \* position inside the call
  \* ---- synchronize() -------------------------------------------------
  timestamp,           \* argument `timestamp`
  fully_atomic,        \* argument `fully_atomic`
  incoming_changes,    \* result of IncomingChangeset::fetch
  last_changed_remote, \* incoming_changes.timestamp, saved at line 42
  echoed,              \* outgoing.timestamp as the store returned it
  outgoing,            \* result of store.apply_incoming, then retargeted
  update,              \* changeset and flag handed to CollectionUpdate
  upload_info,         \* result of upload()
  sf_args,             \* arguments store.sync_finished was called with
  calls,               \* steps invoked by this call, with their outcome
  result,              \* how the call ended: "none" while running
  trips,               \* network round trips made by this call
  committed,           \* Store: watermark last committed by sync_finished
  pre_committed,       \* `committed` when the call started
  \* ---- FxAClient ------------------------------------------------------
  config,              \* the FxAConfig of the client
  request,             \* the request built, about to be executed
  sent,                \* the requests executed by this call, in order
  resp,                \* the response to the last request
  ret,                 \* what the call returns: NoRet while running
  key_fetch_token,     \* keys: argument
  key_request_key,     \* keys: line 91
  json,                \* keys: line 93
  data,                \* keys: line 98
  tamper,              \* keys: how the server's bundle was altered
  session_token,       \* argument of the session-authenticated calls
  audience,            \* oauth_authorize: line 133
  key_pair,            \* oauth_authorize: line 134
  certificate,         \* oauth_authorize: line 135
  assertion,           \* oauth_authorize: line 136
  \* ---- key-derivation contexts -----------------------------------------
  contexts,            \* the contexts built so far by kw and kwe
  \* ---- tests::quick_strech_pwd / tests::auth_pwd ----------------------
  credentials,         \* arguments `email` and `pwd`
  secret_key,          \* pbkdf2::derive: the HMAC key made of `pwd`
  iteration,           \* pbkdf2::derive: iterations done
  block_u,             \* pbkdf2::derive: U of the last iteration
  out,                 \* pbkdf2::derive: `out`, the XOR of the U so far
  streched,            \* auth_pwd: line 259
  auth_pwd             \* auth_pwd: the hex text returned

syncVars == <<result, timestamp, fully_atomic, incoming_changes,
              last_changed_remote, echoed, outgoing, update, upload_info,
              sf_args, committed, pre_committed>>

clientVars == <<config, request, sent, resp, ret, key_fetch_token,
                key_request_key, json, data, tamper, session_token, audience,
                key_pair, certificate, assertion>>

pwdVars == <<credentials, secret_key, iteration, block_u, out, streched, auth_pwd>>

deriveVars == <<contexts, pwdVars>>

NoTs == 0 - 1
NoChangeset == [timestamp |-> NoTs, changes |-> {}]
NoUpdate == [timestamp |-> NoTs, changes |-> {}, fully_atomic |-> FALSE]
NoUploadInfo == [modified_timestamp |-> NoTs, successful_ids |-> {}, failed_ids |-> {}]
NoSfArgs == [new_timestamp |-> NoTs, records_synced |-> {}]

Step(name, ok) == [step |-> name, ok |-> ok]

\* ------------------------------------------------------------------------
\* synchronize(svc, store, collection, timestamp, fully_atomic)
\* ------------------------------------------------------------------------

\* The caller invokes synchronize with the watermark the store last committed.
SyncCall ==
  /\ op = "none"
  /\ op' = "synchronize"
  /\ pc' = "fetch"
  /\ timestamp' = committed
  /\ fully_atomic' \in BOOLEAN
  /\ pre_committed' = committed
  /\ calls' = <<>>
  /\ result' = "none"
  /\ trips' = 0
  /\ UNCHANGED <<incoming_changes, last_changed_remote, echoed, outgoing,
                 update, upload_info, sf_args, committed>>
  /\ UNCHANGED <<clientVars, deriveVars>>

\* Fetch with the `?` of line 41 dropped: a failed fetch carries on with an
\* empty changeset.
FetchIgnoringError ==
  /\ op = "synchronize" /\ pc = "fetch"
  /\ trips' = trips + 1
  /\ \/ /\ calls' = Append(calls, Step("fetch", FALSE))
        /\ incoming_changes' = [timestamp |-> timestamp, changes |-> {}]
        /\ last_changed_remote' = timestamp
     \/ \E ts \in timestamp..MaxTs, ch \in SUBSET Ids :
          /\ calls' = Append(calls, Step("fetch", TRUE))
          /\ incoming_changes' = [timestamp |-> ts, changes |-> ch]
          /\ last_changed_remote' = ts
  /\ pc' = "apply"
  /\ UNCHANGED <<op, result, timestamp, fully_atomic, echoed, outgoing, update,
                 upload_info, sf_args, committed, pre_committed>>
  /\ UNCHANGED <<clientVars, deriveVars>>

\* Fetch that tries a second time after a failure.
FetchRetrying ==
  /\ op = "synchronize" /\ pc = "fetch"
  /\ trips' = trips + 1
  /\ \/ /\ calls' = Append(calls, Step("fetch", FALSE))
        /\ IF trips = 0
             THEN pc' = "fetch" /\ UNCHANGED result
             ELSE pc' = "return" /\ result' = "Err(fetch)"
        /\ UNCHANGED <<incoming_changes, last_changed_remote>>
     \/ \E ts \in timestamp..MaxTs, ch \in SUBSET Ids :
          /\ calls' = Append(calls, Step("fetch", TRUE))
          /\ incoming_changes' = [timestamp |-> ts, changes |-> ch]
          /\ last_changed_remote' = ts
          /\ pc' = "apply"
          /\ UNCHANGED result
  /\ UNCHANGED <<op, timestamp, fully_atomic, echoed, outgoing, update,
                 upload_info, sf_args, committed, pre_committed>>
  /\ UNCHANGED <<clientVars, deriveVars>>

\* line 41-42: IncomingChangeset::fetch(svc, collection, timestamp)?
Fetch ==
  /\ op = "synchronize" /\ pc = "fetch"
  /\ trips' = trips + 1
  /\ \/ /\ calls' = Append(calls, Step("fetch", FALSE))
        /\ result' = "Err(fetch)"
        /\ pc' = "return"
        /\ UNCHANGED <<incoming_changes, last_changed_remote>>
     \/ \E ts \in timestamp..MaxTs, ch \in SUBSET Ids :
          /\ calls' = Append(calls, Step("fetch", TRUE))
          /\ incoming_changes' = [timestamp |-> ts, changes |-> ch]
          /\ last_changed_remote' = ts
          /\ pc' = "apply"
          /\ UNCHANGED result
  /\ UNCHANGED <<op, timestamp, fully_atomic, echoed, outgoing, update,
                 upload_info, sf_args, committed, pre_committed>>
  /\ UNCHANGED <<clientVars, deriveVars>>

\* line 45: store.apply_incoming(incoming_changes)?
\* The store is any implementation of the trait: it may fail, and nothing
\* but the assertion of line 47 constrains the timestamp it echoes.
ApplyIncoming ==
  /\ op = "synchronize" /\ pc = "apply"
  /\ \/ /\ calls' = Append(calls, Step("apply_incoming", FALSE))
        /\ result' = "Err(apply_incoming)"
        /\ pc' = "return"
        /\ UNCHANGED <<echoed, outgoing>>
     \/ \E ts \in Timestamps, ch \in SUBSET Ids :
          /\ calls' = Append(calls, Step("apply_incoming", TRUE))
          /\ outgoing' = [timestamp |-> ts, changes |-> ch]
          /\ echoed' = ts
          /\ pc' = "assert"
          /\ UNCHANGED result
  /\ UNCHANGED <<op, timestamp, fully_atomic, incoming_changes,
                 last_changed_remote, update, upload_info, sf_args, trips,
                 committed, pre_committed>>
  /\ UNCHANGED <<clientVars, deriveVars>>

\* Lines 47-50 without the assertion: the changeset is retargeted whatever
\* timestamp the store echoed.
RetargetWithoutAssert ==
  /\ op = "synchronize" /\ pc = "assert"
  /\ calls' = Append(calls, Step("assert_eq", TRUE))
  /\ outgoing' = [outgoing EXCEPT !.timestamp = last_changed_remote]
  /\ pc' = "new_from_changeset"
  /\ UNCHANGED <<op, result, timestamp, fully_atomic, incoming_changes,
                 last_changed_remote, echoed, update, upload_info, sf_args,
                 trips, committed, pre_committed>>
  /\ UNCHANGED <<clientVars, deriveVars>>

\* Lines 47-50 without the assignment of line 50: the changeset keeps the
\* timestamp the store echoed.
AssertWithoutRetarget ==
  /\ op = "synchronize" /\ pc = "assert"
  /\ IF outgoing.timestamp = timestamp
       THEN /\ calls' = Append(calls, Step("assert_eq", TRUE))
            /\ pc' = "new_from_changeset"
            /\ UNCHANGED result
       ELSE /\ calls' = Append(calls, Step("assert_eq", FALSE))
            /\ result' = "panic(assert_eq)"
            /\ pc' = "return"
  /\ UNCHANGED <<op, timestamp, fully_atomic, incoming_changes,
                 last_changed_remote, echoed, outgoing, update, upload_info,
                 sf_args, trips, committed, pre_committed>>
  /\ UNCHANGED <<clientVars, deriveVars>>

\* line 47-50: assert_eq!(outgoing.timestamp, timestamp) panics on a
\* mismatch; otherwise outgoing.timestamp = last_changed_remote.
AssertRetarget ==
  /\ op = "synchronize" /\ pc = "assert"
  /\ IF outgoing.timestamp = timestamp
       THEN /\ calls' = Append(calls, Step("assert_eq", TRUE))
            /\ outgoing' = [outgoing EXCEPT !.timestamp = last_changed_remote]
            /\ pc' = "new_from_changeset"
            /\ UNCHANGED result
       ELSE /\ calls' = Append(calls, Step("assert_eq", FALSE))
            /\ result' = "panic(assert_eq)"
            /\ pc' = "return"
            /\ UNCHANGED outgoing
  /\ UNCHANGED <<op, timestamp, fully_atomic, incoming_changes,
                 last_changed_remote, echoed, update, upload_info, sf_args,
                 trips, committed, pre_committed>>
  /\ UNCHANGED <<clientVars, deriveVars>>

\* line 53, first half: CollectionUpdate::new_from_changeset(svc, outgoing,
\* fully_atomic)?
NewFromChangeset ==
  /\ op = "synchronize" /\ pc = "new_from_changeset"
  /\ update' = [timestamp |-> outgoing.timestamp,
                changes |-> outgoing.changes,
                fully_atomic |-> fully_atomic]
  /\ \/ /\ calls' = Append(calls, Step("new_from_changeset", FALSE))
        /\ result' = "Err(new_from_changeset)"
        /\ pc' = "return"
     \/ /\ calls' = Append(calls, Step("new_from_changeset", TRUE))
        /\ pc' = "upload"
        /\ UNCHANGED result
  /\ UNCHANGED <<op, timestamp, fully_atomic, incoming_changes,
                 last_changed_remote, echoed, outgoing, upload_info, sf_args,
                 trips, committed, pre_committed>>
  /\ UNCHANGED <<clientVars, deriveVars>>

\* The outcomes of CollectionUpdate::upload for the update `u`: the records
\* are partitioned into accepted and rejected ones; a fully atomic batch is
\* accepted as a whole or the upload fails.
UploadOutcomes(u) ==
  { [modified_timestamp |-> ts, successful_ids |-> s,
     failed_ids |-> u.changes \ s] :
      ts \in u.timestamp..MaxTs,
      s \in IF u.fully_atomic THEN {u.changes} ELSE SUBSET u.changes }

\* Upload with the `?` of line 53 dropped: a failed upload carries on to
\* sync_finished with an empty result at the update's timestamp.
UploadIgnoringError ==
  /\ op = "synchronize" /\ pc = "upload"
  /\ trips' = trips + 1
  /\ \/ /\ calls' = Append(calls, Step("upload", FALSE))
        /\ upload_info' = [modified_timestamp |-> update.timestamp,
                           successful_ids |-> {}, failed_ids |-> update.changes]
     \/ \E info \in UploadOutcomes(update) :
          /\ calls' = Append(calls, Step("upload", TRUE))
          /\ upload_info' = info
  /\ pc' = "sync_finished"
  /\ UNCHANGED <<op, result, timestamp, fully_atomic, incoming_changes,
                 last_changed_remote, echoed, outgoing, update, sf_args,
                 committed, pre_committed>>
  /\ UNCHANGED <<clientVars, deriveVars>>

\* line 53, second half: .upload()?
Upload ==
  /\ op = "synchronize" /\ pc = "upload"
  /\ trips' = trips + 1
  /\ \/ /\ calls' = Append(calls, Step("upload", FALSE))
        /\ result' = "Err(upload)"
        /\ pc' = "return"
        /\ UNCHANGED upload_info
     \/ \E info \in UploadOutcomes(update) :
          /\ calls' = Append(calls, Step("upload", TRUE))
          /\ upload_info' = info
          /\ pc' = "sync_finished"
          /\ UNCHANGED result
  /\ UNCHANGED <<op, timestamp, fully_atomic, incoming_changes,
                 last_changed_remote, echoed, outgoing, update, sf_args,
                 committed, pre_committed>>
  /\ UNCHANGED <<clientVars, deriveVars>>

\* Line 59 reporting every uploaded record, accepted or not.
SyncFinishedAllIds ==
  /\ op = "synchronize" /\ pc = "sync_finished"
  /\ sf_args' = [new_timestamp |-> upload_info.modified_timestamp,
                 records_synced |-> upload_info.successful_ids
                                      \cup upload_info.failed_ids]
  /\ \/ /\ calls' = Append(calls, Step("sync_finished", FALSE))
        /\ result' = "Err(sync_finished)"
        /\ UNCHANGED committed
     \/ /\ calls' = Append(calls, Step("sync_finished", TRUE))
        /\ result' = "Ok"
        /\ committed' = upload_info.modified_timestamp
  /\ pc' = "return"
  /\ UNCHANGED <<op, timestamp, fully_atomic, incoming_changes,
                 last_changed_remote, echoed, outgoing, update, upload_info,
                 trips, pre_committed>>
  /\ UNCHANGED <<clientVars, deriveVars>>

\* line 59-62: store.sync_finished(upload_info.modified_timestamp,
\* &upload_info.successful_ids)?; Ok(())
\* A store that returns Ok has committed the new watermark.
SyncFinished ==
  /\ op = "synchronize" /\ pc = "sync_finished"
  /\ sf_args' = [new_timestamp |-> upload_info.modified_timestamp,
                 records_synced |-> upload_info.successful_ids]
  /\ \/ /\ calls' = Append(calls, Step("sync_finished", FALSE))
        /\ result' = "Err(sync_finished)"
        /\ UNCHANGED committed
     \/ /\ calls' = Append(calls, Step("sync_finished", TRUE))
        /\ result' = "Ok"
        /\ committed' = upload_info.modified_timestamp
  /\ pc' = "return"
  /\ UNCHANGED <<op, timestamp, fully_atomic, incoming_changes,
                 last_changed_remote, echoed, outgoing, update, upload_info,
                 trips, pre_committed>>
  /\ UNCHANGED <<clientVars, deriveVars>>

\* The call is over: its locals are dropped, the store keeps its watermark.
SyncReturn ==
  /\ op = "synchronize" /\ pc = "return"
  /\ op' = "none"
  /\ pc' = "idle"
  /\ timestamp' = NoTs
  /\ fully_atomic' = FALSE
  /\ incoming_changes' = NoChangeset
  /\ last_changed_remote' = NoTs
  /\ echoed' = NoTs
  /\ outgoing' = NoChangeset
  /\ update' = NoUpdate
  /\ upload_info' = NoUploadInfo
  /\ sf_args' = NoSfArgs
  /\ calls' = <<>>
  /\ result' = "none"
  /\ trips' = 0
  /\ pre_committed' = NoTs
  /\ UNCHANGED committed
  /\ UNCHANGED <<clientVars, deriveVars>>

SyncInit ==
  /\ timestamp = NoTs
  /\ fully_atomic = FALSE
  /\ incoming_changes = NoChangeset
  /\ last_changed_remote = NoTs
  /\ echoed = NoTs
  /\ outgoing = NoChangeset
  /\ update = NoUpdate
  /\ upload_info = NoUploadInfo
  /\ sf_args = NoSfArgs
  /\ committed = 0
  /\ pre_committed = NoTs

\* ========================================================================
\* FxAClient (fxa-rust-client/src/http_client/mod.rs)
\* ========================================================================

\* ------------------------------------------------------------------------
\* Bytes and strings.  A byte vector is a sequence over 0..255; a string is
\* a sequence of one-character strings.
\* ------------------------------------------------------------------------
KEY_LENGTH == 32

HKDF_SALT == [i \in 1..32 |-> 0]

Lower == <<"a","b","c","d","e","f","g","h","i","j","k","l","m",
           "n","o","p","q","r","s","t","u","v","w","x","y","z">>
Upper == <<"A","B","C","D","E","F","G","H","I","J","K","L","M",
           "N","O","P","Q","R","S","T","U","V","W","X","Y","Z">>
Digit == <<"0","1","2","3","4","5","6","7","8","9">>

IndexOf(c, seq) == CHOOSE i \in 1..Len(seq) : seq[i] = c
InSeq(c, seq) == \E i \in 1..Len(seq) : seq[i] = c

\* The ASCII code of a character (str::as_bytes on ASCII text), tabulated.
AsciiCode ==
  [c \in {Lower[i] : i \in 1..26} \cup {Upper[i] : i \in 1..26}
          \cup {Digit[i] : i \in 1..10} \cup {".", "/", ":", "@"} |->
     IF InSeq(c, Lower) THEN 96 + IndexOf(c, Lower)
     ELSE IF InSeq(c, Upper) THEN 64 + IndexOf(c, Upper)
     ELSE IF InSeq(c, Digit) THEN 47 + IndexOf(c, Digit)
     ELSE IF c = "." THEN 46
     ELSE IF c = "/" THEN 47
     ELSE IF c = ":" THEN 58
     ELSE 64]

Code(c) == IF c \in DOMAIN AsciiCode THEN AsciiCode[c] ELSE 63

\* The UTF-8 encoding of a character (str::as_bytes).
Utf8(c) ==
  IF c = "ä" THEN <<195, 164>>
  ELSE IF c = "é" THEN <<195, 169>>
  ELSE IF c = "ö" THEN <<195, 182>>
  ELSE <<Code(c)>>

RECURSIVE Utf8Range(_, _, _)
Utf8Range(str, lo, hi) ==
  IF lo > hi THEN <<>>
  ELSE IF lo = hi THEN Utf8(str[lo])
  ELSE Utf8Range(str, lo, (lo + hi) \div 2)
         \o Utf8Range(str, ((lo + hi) \div 2) + 1, hi)

AsBytes(str) == Utf8Range(str, 1, Len(str))

\* data[from..to] of Rust: the bytes at 0-based positions from..to-1.
Slice(vec, from, to) == SubSeq(vec, from + 1, to)

\* ------------------------------------------------------------------------
\* kw / kwe (lines 39-45)
\* ------------------------------------------------------------------------
Prefix == <<"i","d","e","n","t","i","t","y",".","m","o","z","i","l","l","a",
            ".","c","o","m","/","p","i","c","l","/","v","1","/">>

kw(name) == AsBytes(Prefix \o name)

kwe(name, email) == AsBytes(Prefix \o name \o <<":">> \o email)

Name_keyFetchToken == <<"k","e","y","F","e","t","c","h","T","o","k","e","n">>
Name_accountKeys == <<"a","c","c","o","u","n","t","/","k","e","y","s">>
Name_sessionToken == <<"s","e","s","s","i","o","n","T","o","k","e","n">>

\* ------------------------------------------------------------------------
\* The primitives of the hkdf, hmac and sha2 crates.  SHA-256 is replaced by
\* a 16-bit positional checksum over the same inputs in the same order, so that
\* the model keeps which bytes go into which derivation; the structure around
\* it (extract then expand in 32-byte blocks, a 32-byte tag over the whole
\* message under the key) is the one of the source.
\* ------------------------------------------------------------------------
RECURSIVE PositionalSum(_, _, _)
PositionalSum(input, lo, hi) ==
  IF lo > hi THEN 0
  ELSE IF lo = hi THEN (2 * lo + 1) * (input[lo] + 1)
  ELSE PositionalSum(input, lo, (lo + hi) \div 2)
         + PositionalSum(input, ((lo + hi) \div 2) + 1, hi)

Digest(h, input) ==
  (h * 31 + PositionalSum(input, 1, Len(input)) + Len(input)) % 65521

\* Hkdf::<Sha256>::extract(xts, ikm)
HkdfExtract(xts, ikm) == Digest(Digest(7, xts), ikm)

\* hk.expand(info, len): block k covers bytes 32(k-1)..32k-1.
HkdfExpand(prk, info, len) ==
  LET nblocks == (len + 31) \div 32
      block == [k \in 1..nblocks |-> Digest(Digest(prk, info), <<k>>)]
  IN  [j \in 1..len |->
         LET k == ((j - 1) \div 32) + 1
             r == (j - 1) % 32
         IN  ((block[k] + 1) * (2 * r + 3) + r) % 256]

\* derive_hkdf_sha256_key (lines 183-186)
derive_hkdf_sha256_key(ikm, xts, info, len) ==
  HkdfExpand(HkdfExtract(xts, ikm), info, len)

\* Hmac::<Sha256>::new_varkey(key), input(msg): the 32-byte tag.  Every byte
\* of the message and of the key enters the tag with an odd weight, so a
\* change of a single byte always changes the tag.
RECURSIVE WeightedSum(_, _, _)
WeightedSum(msg, i, step) ==
  IF i > Len(msg) THEN 0
  ELSE (2 * ((i - 1) \div step) + 1) * msg[i] + WeightedSum(msg, i + step, step)

HmacTag(key, msg) ==
  LET keyed == Digest(11, key) IN
  [i \in 1..32 |->
     ((IF i <= Len(key) THEN key[i] ELSE 0) + WeightedSum(msg, i, 32)
        + Len(msg) + keyed) % 256]

\* mac.verify(code): Ok iff code is the tag of the input.
HmacVerify(key, msg, code) == code = HmacTag(key, msg)

\* Bitwise exclusive or of two bytes.
RECURSIVE XorByte(_, _)
XorByte(a, b) ==
  IF a = 0 THEN b
  ELSE IF b = 0 THEN a
  ELSE (((a % 2) + (b % 2)) % 2) + 2 * XorByte(a \div 2, b \div 2)

\* Xorable::xored_with: bytewise xor of two vectors of the same length.
XoredWith(a, b) == [i \in 1..Len(a) |-> XorByte(a[i], b[i])]

\* ------------------------------------------------------------------------
\* SHA-256, HMAC-SHA256, HKDF-SHA256 and PBKDF2-HMAC-SHA256 themselves, for
\* the derivations whose output bytes matter (the password stretching of
\* the tests).  The checksum above stands for them where only which bytes
\* go into which derivation matters.
\* ------------------------------------------------------------------------
\* Exclusive or of the k low bits of a and b.
RECURSIVE XorBits(_, _, _)
XorBits(a, b, k) ==
  IF k = 0 THEN 0
  ELSE ((a + b) % 2) + 2 * XorBits(a \div 2, b \div 2, k - 1)

\* a ^ b on bytes, tabulated
Xor8 == [a \in 0..255 |-> [b \in 0..255 |-> XorBits(a, b, 8)]]

\* ^ and & on 16-bit halves; a word of 32 bits is <<high half, low half>>
Xor16(a, b) == Xor8[a \div 256][b \div 256] * 256 + Xor8[a % 256][b % 256]
And16(a, b) == (a + b - Xor16(a, b)) \div 2

Xor32(a, b) == <<Xor16(a[1], b[1]), Xor16(a[2], b[2])>>
And32(a, b) == <<And16(a[1], b[1]), And16(a[2], b[2])>>
Not32(a) == <<65535 - a[1], 65535 - a[2]>>
Add32(a, b) ==
  LET lo == a[2] + b[2]
  IN  <<(a[1] + b[1] + (lo \div 65536)) % 65536, lo % 65536>>

Pow2 == [k \in 0..16 |-> 2^k]
\* rotation to the right by k, 0 < k < 16
Rot16(w, k) ==
  <<(w[1] \div Pow2[k]) + (w[2] % Pow2[k]) * Pow2[16 - k],
    (w[2] \div Pow2[k]) + (w[1] % Pow2[k]) * Pow2[16 - k]>>
Rotr(w, k) ==
  IF k = 16 THEN <<w[2], w[1]>>
  ELSE IF k < 16 THEN Rot16(w, k)
  ELSE Rot16(<<w[2], w[1]>>, k - 16)
Shr(w, k) ==
  <<w[1] \div Pow2[k], (w[2] \div Pow2[k]) + (w[1] % Pow2[k]) * Pow2[16 - k]>>

\* the round constants and the initial hash value of SHA-256
SHA256_K == <<
  <<17034, 12184>>, <<28983, 17553>>, <<46528, 64463>>, <<59829, 56229>>,
  <<14678, 49755>>, <<23025, 4593>>, <<37439, 33444>>, <<43804, 24277>>,
  <<55303, 43672>>, <<4739, 23297>>, <<9265, 34238>>, <<21772, 32195>>,
  <<29374, 23924>>, <<32990, 45566>>, <<39900, 1703>>, <<49563, 61812>>,
  <<58523, 27073>>, <<61374, 18310>>, <<4033, 40390>>, <<9228, 41420>>,
  <<11753, 11375>>, <<19060, 33962>>, <<23728, 43484>>, <<30457, 35034>>,
  <<38974, 20818>>, <<43057, 50797>>, <<45059, 10184>>, <<48985, 32711>>,
  <<50912, 3059>>, <<54695, 37191>>, <<1738, 25425>>, <<5161, 10599>>,
  <<10167, 2693>>, <<11803, 8504>>, <<19756, 28156>>, <<21304, 3347>>,
  <<25866, 29524>>, <<30314, 2747>>, <<33218, 51502>>, <<37490, 11397>>,
  <<41663, 59553>>, <<43034, 26187>>, <<49739, 35696>>, <<51052, 20899>>,
  <<53650, 59417>>, <<54937, 1572>>, <<62478, 13701>>, <<4202, 41072>>,
  <<6564, 49430>>, <<7735, 27656>>, <<10056, 30540>>, <<13488, 48309>>,
  <<14620, 3251>>, <<20184, 43594>>, <<23452, 51791>>, <<26670, 28659>>,
  <<29839, 33518>>, <<30885, 25455>>, <<33992, 30740>>, <<36039, 520>>,
  <<37054, 65530>>, <<42064, 27883>>, <<48889, 41975>>, <<50801, 30962>> >>

SHA256_H0 == <<
  <<27145, 58983>>, <<47975, 44677>>, <<15470, 62322>>, <<42319, 62778>>,
  <<20750, 21119>>, <<39685, 26764>>, <<8067, 55723>>, <<23520, 52505>> >>

SmallSigma0(w) == Xor32(Xor32(Rotr(w, 7), Rotr(w, 18)), Shr(w, 3))
SmallSigma1(w) == Xor32(Xor32(Rotr(w, 17), Rotr(w, 19)), Shr(w, 10))
BigSigma0(w) == Xor32(Xor32(Rotr(w, 2), Rotr(w, 13)), Rotr(w, 22))
BigSigma1(w) == Xor32(Xor32(Rotr(w, 6), Rotr(w, 11)), Rotr(w, 25))
Ch(e, f, g) == Xor32(And32(e, f), And32(Not32(e), g))
Maj(a, b, c) == Xor32(Xor32(And32(a, b), And32(a, c)), And32(b, c))

\* the message schedule W[1..64] from its first 16 words
RECURSIVE Schedule(_)
Schedule(w) ==
  LET n == Len(w) + 1 IN
  IF n > 64 THEN w
  ELSE Schedule(Append(w, Add32(Add32(w[n - 16], SmallSigma0(w[n - 15])),
                                Add32(w[n - 7], SmallSigma1(w[n - 2])))))

\* one round on the working variables a..h = st[1..8]
Round(st, k, w) ==
  LET t1 == Add32(Add32(Add32(st[8], BigSigma1(st[5])), Ch(st[5], st[6], st[7])),
                  Add32(k, w))
      t2 == Add32(BigSigma0(st[1]), Maj(st[1], st[2], st[3]))
  IN  <<Add32(t1, t2), st[1], st[2], st[3], Add32(st[4], t1), st[5], st[6], st[7]>>

RECURSIVE Rounds(_, _, _)
Rounds(st, w, i) ==
  IF i > 64 \/ Len(st) # 8 THEN st
  ELSE Rounds(Round(st, SHA256_K[i], w[i]), w, i + 1)

\* the compression of one 64-byte block into the hash value h
Compress(h, block) ==
  LET w == Schedule([i \in 1..16 |->
                       <<block[4 * i - 3] * 256 + block[4 * i - 2],
                         block[4 * i - 1] * 256 + block[4 * i]>>])
      st == Rounds(h, w, 1)
  IN  [i \in 1..8 |-> Add32(h[i], st[i])]

\* the message, 0x80, zeros, and the length in bits as 8 bytes,
\* for a message that follows `before` bytes already compressed
PadAfter(msg, before) ==
  LET len == Len(msg)
      zeros == (119 - (len % 64)) % 64
      bits == (before + len) * 8
  IN  msg \o <<128>> \o [i \in 1..zeros |-> 0]
          \o <<0, 0, 0, 0, (bits \div 16777216) % 256, (bits \div 65536) % 256,
               (bits \div 256) % 256, bits % 256>>

RECURSIVE Blocks(_, _, _)
Blocks(h, padded, from) ==
  IF from > Len(padded) \/ Len(h) # 8 THEN h
  ELSE Blocks(Compress(h, SubSeq(padded, from, from + 63)), padded, from + 64)

WordBytes(w) == <<w[1] \div 256, w[1] % 256, w[2] \div 256, w[2] % 256>>

\* the digest of a message whose first `before` bytes, a whole number of
\* blocks, were compressed into h
Sha256From(h, msg, before) ==
  LET final == Blocks(h, PadAfter(msg, before), 1)
  IN  [i \in 1..32 |-> WordBytes(final[((i - 1) \div 4) + 1])[((i - 1) % 4) + 1]]

Sha256(msg) == Sha256From(SHA256_H0, msg, 0)

\* HMAC-SHA256: the key, zero-padded to a block, under ipad 0x36 and opad 0x5c
XorPad(key, pad) ==
  [i \in 1..64 |-> Xor8[IF i <= Len(key) THEN key[i] ELSE 0][pad]]

\* the signing key: the hash values after the ipad block and the opad block
HmacSigningKey(key) ==
  LET k == IF Len(key) > 64 THEN Sha256(key) ELSE key
  IN  [inner |-> Compress(SHA256_H0, XorPad(k, 54)),
       outer |-> Compress(SHA256_H0, XorPad(k, 92))]

HmacSign(skey, msg) ==
  Sha256From(skey.outer, Sha256From(skey.inner, msg, 64), 64)

HmacSha256(key, msg) == HmacSign(HmacSigningKey(key), msg)

XorBytes(a, b) == [i \in 1..Len(a) |-> Xor8[a[i]][b[i]]]

\* Hkdf::<Sha256>::extract(xts, ikm) and hk.expand(info, len): T(n) is
\* HMAC(prk, T(n-1) | info | n), the output the first len bytes of T(1) T(2) ..
RECURSIVE HkdfSha256Block(_, _, _)
HkdfSha256Block(prk, info, n) ==
  HmacSha256(prk, (IF n = 1 THEN <<>> ELSE HkdfSha256Block(prk, info, n - 1))
                    \o info \o <<n>>)

RECURSIVE HkdfSha256Stream(_, _, _)
HkdfSha256Stream(prk, info, n) ==
  IF n = 0 THEN <<>>
  ELSE HkdfSha256Stream(prk, info, n - 1) \o HkdfSha256Block(prk, info, n)

\* derive_hkdf_sha256_key (lines 183-186) with the real primitives
derive_hkdf_sha256_key_exact(ikm, xts, info, len) ==
  LET prk == HmacSha256(xts, ikm)
  IN  SubSeq(HkdfSha256Stream(prk, info, (len + 31) \div 32), 1, len)

\* pbkdf2::derive, one output block: U1 = HMAC(secret, salt | 1) and
\* U(i) = HMAC(secret, U(i-1)); the output is the XOR of U1 .. U(iterations)
\* under the signing key made once of the secret
Pbkdf2First(skey, salt) == HmacSign(skey, salt \o <<0, 0, 0, 1>>)
Pbkdf2Next(skey, prev) == HmacSign(skey, prev)

\* ------------------------------------------------------------------------
\* hex::encode / hex::decode
\* ------------------------------------------------------------------------
HexDigits == <<"0","1","2","3","4","5","6","7","8","9","a","b","c","d","e","f">>
HexUpper == <<"0","1","2","3","4","5","6","7","8","9","A","B","C","D","E","F">>

HexEncode(vec) ==
  [i \in 1..(2 * Len(vec)) |->
     LET b == vec[(i + 1) \div 2]
     IN  IF i % 2 = 1 THEN HexDigits[(b \div 16) + 1] ELSE HexDigits[(b % 16) + 1]]

\* the value of a hex digit of either case, tabulated
HexValue ==
  [c \in {HexDigits[i] : i \in 1..16} \cup {HexUpper[i] : i \in 1..16} |->
     IF InSeq(c, HexDigits) THEN IndexOf(c, HexDigits) - 1
     ELSE IndexOf(c, HexUpper) - 1]

IsHexChar(c) == c \in DOMAIN HexValue

HexVal(c) == HexValue[c]

\* hex::decode: an odd length or a character that is no hex digit is an error.
HexDecodeOk(str) ==
  /\ Len(str) % 2 = 0
  /\ \A i \in 1..Len(str) : IsHexChar(str[i])

HexDecode(str) ==
  [i \in 1..(Len(str) \div 2) |-> 16 * HexVal(str[2 * i - 1]) + HexVal(str[2 * i])]

\* ------------------------------------------------------------------------
\* serde_json values, results and errors
\* ------------------------------------------------------------------------
JNull == [t |-> "null"]
JNum(n) == [t |-> "num", n |-> n]
JBool(b) == [t |-> "bool", b |-> b]
JStr(text) == [t |-> "str", s |-> text]
\* a JSON string kept character by character (the key bundle)
JChars(str) == [t |-> "str", chars |-> str]
JObj(fields) == [t |-> "obj", f |-> fields]

\* json[key]: Null when json is no object or has no such member.
Get(value, key) ==
  IF value.t = "obj" /\ key \in DOMAIN value.f THEN value.f[key] ELSE JNull

\* json[key].as_u64().unwrap_or(0)
U64Or0(value, key) ==
  LET v == Get(value, key) IN IF v.t = "num" THEN v.n ELSE 0

\* json[key].as_str().unwrap_or("").to_string()
StrOrEmpty(value, key) ==
  LET v == Get(value, key) IN IF v.t = "str" THEN v.s ELSE ""

NoRet == [kind |-> "none"]
Ok(v) == [kind |-> "Ok", v |-> v]
Err(e) == [kind |-> "Err", e |-> e]
Panic(at) == [kind |-> "panic", at |-> at]

RemoteError(code, errno, error, message, info) ==
  [e |-> "RemoteError", code |-> code, errno |-> errno, error |-> error,
   message |-> message, info |-> info]
\* reqwest::Error: what is "network" (execute failed), "status"
\* (error_for_status) or "decode" (resp.json failed)
ReqwestError(what, status) == [e |-> "Reqwest", what |-> what, status |-> status]
JsonError == [e |-> "JsonError"]
FromHexError == [e |-> "FromHexError"]
UrlParseError == [e |-> "UrlParseError"]
BuildError == [e |-> "BuildError"]
BrowserIDError(what) == [e |-> "BrowserID", what |-> what]
Msg(text) == [e |-> "Msg", msg |-> text]

\* The members a response type requires (lines 209-243); "Value" is
\* serde_json::Value and takes any JSON text.
FieldTypes ==
  [LoginResponse |-> [uid |-> "str", sessionToken |-> "str", verified |-> "bool"],
   RecoveryEmailStatusResponse |-> [email |-> "str", verified |-> "bool"],
   AccountStatusResponse |-> [exists |-> "bool"],
   OAuthAuthorizeResponse |-> [access_token |-> "str"],
   SignResponse |-> [cert |-> "str"]]

\* resp.json::<T>() succeeds
Decodes(T, body) ==
  /\ body.parse
  /\ T # "Value" =>
       /\ body.v.t = "obj"
       /\ \A k \in DOMAIN FieldTypes[T] :
            k \in DOMAIN body.v.f /\ body.v.f[k].t = FieldTypes[T][k]

\* ------------------------------------------------------------------------
\* HTTP responses
\* ------------------------------------------------------------------------
NotJson == [parse |-> FALSE, v |-> JNull]
Json(v) == [parse |-> TRUE, v |-> v]

\* client.execute(request) failed: there is no response
NetworkFailure == [status |-> 0, body |-> NotJson]

Statuses == {200, 304, 400, 503}

is_success(status) == 200 <= status /\ status <= 299
is_client_error(status) == 400 <= status /\ status <= 499
is_server_error(status) == 500 <= status /\ status <= 599

FullEnvelope ==
  JObj([code |-> JNum(400), errno |-> JNum(102), error |-> JStr("Bad Request"),
        message |-> JStr("Unknown account"), info |-> JStr("https://docs")])
\* an envelope with members missing and one of the wrong type
PartialEnvelope == JObj([code |-> JNum(429), error |-> JNum(1)])

GoodBodies(T) ==
  IF T = "LoginResponse"
    THEN {JObj([uid |-> JStr("u1"), sessionToken |-> JStr("00ff"),
                verified |-> JBool(v)]) : v \in BOOLEAN}
  ELSE IF T = "RecoveryEmailStatusResponse"
    THEN {JObj([email |-> JStr("a@b.c"), verified |-> JBool(TRUE)])}
  ELSE IF T = "AccountStatusResponse"
    THEN {JObj([exists |-> JBool(v)]) : v \in BOOLEAN}
  ELSE IF T = "OAuthAuthorizeResponse"
    THEN {JObj([access_token |-> JStr("token")])}
  ELSE IF T = "SignResponse"
    THEN {JObj([cert |-> JStr(c)]) : c \in {"cert1", "cert2"}}
  ELSE {}

Bodies(T) ==
  {NotJson, Json(JNull), Json(FullEnvelope), Json(PartialEnvelope)}
    \cup {Json(v) : v \in GoodBodies(T)}

Responses(T) ==
  {NetworkFailure} \cup [status : Statuses, body : Bodies(T)]

\* ------------------------------------------------------------------------
\* make_request (lines 188-206), after client.execute returned `resp`
\* ------------------------------------------------------------------------

\* resp.error_for_status().unwrap_err(): error_for_status is an Err only for
\* a 4xx or 5xx status, so unwrap_err panics for any other status.
ErrorForStatusUnwrapErr(status) ==
  IF is_client_error(status) \/ is_server_error(status)
    THEN Err(ReqwestError("status", status))
    ELSE Panic("unwrap_err")

make_request(response, T) ==
  IF response = NetworkFailure THEN Err(ReqwestError("network", 0))
  ELSE IF is_success(response.status)
    THEN IF Decodes(T, response.body) THEN Ok(response.body.v)
         ELSE Err(ReqwestError("decode", response.status))
  ELSE IF response.body.parse
    THEN Err(RemoteError(U64Or0(response.body.v, "code"),
                         U64Or0(response.body.v, "errno"),
                         StrOrEmpty(response.body.v, "error"),
                         StrOrEmpty(response.body.v, "message"),
                         StrOrEmpty(response.body.v, "info")))
  ELSE ErrorForStatusUnwrapErr(response.status)

\* ------------------------------------------------------------------------
\* FxAConfig and URLs (url crate): `parse` says whether Url::parse accepts
\* the text, `base` whether the URL can be joined with a path, host = "" is
\* a URL without host and port = 0 a URL with the default port.
\* ------------------------------------------------------------------------
Url(parse, base, host, port) ==
  [parse |-> parse, base |-> base, scheme |-> "https", host |-> host, port |-> port]
UrlPlain == Url(TRUE, TRUE, "host", 0)
UrlWithPort == Url(TRUE, TRUE, "host", 8443)
UrlNoHost == Url(TRUE, FALSE, "", 0)
UrlInvalid == Url(FALSE, FALSE, "", 0)

NoConfig == [auth_url |-> UrlInvalid, oauth_url |-> UrlInvalid]

\* The configurations a call is made with; an operation that never reads
\* oauth_url is given the plain one.
Configs(readsOAuth) ==
  [auth_url : {UrlPlain, UrlInvalid},
   oauth_url : IF readsOAuth THEN {UrlPlain, UrlWithPort, UrlNoHost, UrlInvalid}
               ELSE {UrlPlain}]

\* build_url (lines 173-176)
build_url(base_url, path) ==
  IF ~base_url.parse THEN Err(UrlParseError)
  ELSE IF ~base_url.base THEN Err(UrlParseError)
  ELSE Ok([base |-> base_url, path |-> path])

\* get_oauth_audience (lines 163-171)
get_oauth_audience(cfg) ==
  LET url == cfg.oauth_url IN
  IF ~url.parse THEN Err(UrlParseError)
  ELSE IF url.host = "" THEN Err(Msg("This URL doesn't have a host!"))
  ELSE Ok([scheme |-> url.scheme, host |-> url.host, port |-> url.port])

\* derive_key_from_session_token (lines 178-181)
derive_key_from_session_token(token) ==
  derive_hkdf_sha256_key(token, HKDF_SALT, kw(Name_sessionToken), KEY_LENGTH * 2)

\* ------------------------------------------------------------------------
\* Inputs of the FxAClient calls
\* ------------------------------------------------------------------------
SIGN_DURATION_MS == 24 * 60 * 60 * 1000
OAUTH_CLIENT_ID == "5882386c6d801776"

Token(t) == [i \in 1..32 |-> (37 * t + 11 * i) % 256]
Tokens == {Token(t) : t \in 1..NumTokens}

\* kA followed by wrap_kB, 32 bytes each
Secret(n) == [i \in 1..64 |-> (91 * n + 5 * i) % 256]
Secrets == {Secret(n) : n \in 1..NumSecrets}

NoUrl == [base |-> UrlInvalid, path |-> ""]
NoRequest == [method |-> "", url |-> NoUrl, key |-> <<>>, params |-> JNull]
NoResp == [status |-> 0 - 1, body |-> NotJson]
NoTamper == [kind |-> "nobundle", pos |-> 0]
NoAudience == [scheme |-> "", host |-> "", port |-> 0]
NoAssertion == [private_key |-> 0, certificate |-> "", audience |-> NoAudience]

ClientInit ==
  /\ config = NoConfig
  /\ request = NoRequest
  /\ sent = <<>>
  /\ resp = NoResp
  /\ ret = NoRet
  /\ key_fetch_token = <<>>
  /\ key_request_key = <<>>
  /\ json = JNull
  /\ data = <<>>
  /\ tamper = NoTamper
  /\ session_token = <<>>
  /\ audience = NoAudience
  /\ key_pair = 0
  /\ certificate = ""
  /\ assertion = NoAssertion

\* url = self.build_url(..)?; request = <builder>.build()?
\* build_ok says whether the request builder succeeds.
Prepare(url_result, build_ok, http_method, hawk_key, parameters) ==
  IF url_result.kind = "Err"
    THEN [ret |-> url_result, request |-> NoRequest,
          steps |-> <<Step("build_url", FALSE)>>]
  ELSE IF ~build_ok
    THEN [ret |-> Err(BuildError), request |-> NoRequest,
          steps |-> <<Step("build_url", TRUE), Step("build", FALSE)>>]
  ELSE [ret |-> NoRet,
        request |-> [method |-> http_method, url |-> url_result.v, key |-> hawk_key,
                     params |-> parameters],
        steps |-> <<Step("build_url", TRUE), Step("build", TRUE)>>]

\* A call of `name` starts with the prepared request, or returns its error.
Start(name, conf, prep) ==
  /\ op = "none"
  /\ op' = name
  /\ config' = conf
  /\ calls' = prep.steps
  /\ ret' = prep.ret
  /\ request' = prep.request
  /\ pc' = IF prep.ret = NoRet THEN "make_request" ELSE "return"
  /\ trips' = 0
  /\ sent' = <<>>
  /\ UNCHANGED <<resp, json, data, tamper, audience, key_pair, certificate,
                 assertion>>
  /\ UNCHANGED <<syncVars, deriveVars>>

\* login (lines 65-76), up to the call of make_request
LoginCall ==
  \E cfg \in Configs(FALSE), get_keys \in BOOLEAN, built \in BOOLEAN :
    /\ Start("login", cfg,
             Prepare(build_url(cfg.auth_url, "account/login"), built, "POST",
                     <<>>, [email |-> "a@b.c", authPW |-> "00", keys |-> get_keys]))
    /\ UNCHANGED <<key_fetch_token, key_request_key, session_token>>

\* account_status (lines 78-85), up to the call of make_request
AccountStatusCall ==
  \E cfg \in Configs(FALSE), built \in BOOLEAN :
    /\ Start("account_status", cfg,
             Prepare(build_url(cfg.auth_url, "account/status"), built, "GET",
                     <<>>, [uid |-> "u1"]))
    /\ UNCHANGED <<key_fetch_token, key_request_key, session_token>>

\* recovery_email_status (lines 125-130), up to the call of make_request
RecoveryEmailStatusCall ==
  \E cfg \in Configs(FALSE), token \in Tokens, built \in BOOLEAN :
    /\ Start("recovery_email_status", cfg,
             Prepare(build_url(cfg.auth_url, "recovery_email/status"), built,
                     "GET", derive_key_from_session_token(token), JNull))
    /\ session_token' = token
    /\ UNCHANGED <<key_fetch_token, key_request_key>>

\* sign (lines 150-159): public_key.to_json()?, the key, the URL, the request
SignPrepare(conf, tok, pub_key, to_json_ok, builds) ==
  IF ~to_json_ok
    THEN [ret |-> Err(BrowserIDError("to_json")), request |-> NoRequest,
          steps |-> <<Step("to_json", FALSE)>>]
  ELSE LET prepared ==
             Prepare(build_url(conf.auth_url, "certificate/sign"), builds,
                        "POST", derive_key_from_session_token(tok),
                        [publicKey |-> pub_key, duration |-> SIGN_DURATION_MS])
       IN  [prepared EXCEPT !.steps = <<Step("to_json", TRUE)>> \o prepared.steps]

SignCall ==
  \E cfg \in Configs(FALSE), token \in Tokens, pk \in 1..NumKeyPairs,
     json_ok \in BOOLEAN, built \in BOOLEAN :
    /\ Start("sign", cfg, SignPrepare(cfg, token, pk, json_ok, built))
    /\ session_token' = token
    /\ UNCHANGED <<key_fetch_token, key_request_key>>

\* ------------------------------------------------------------------------
\* keys (lines 87-123)
\* ------------------------------------------------------------------------
\* lines 89-90
KeyFetchStream(token) ==
  derive_hkdf_sha256_key(token, HKDF_SALT, kw(Name_keyFetchToken), KEY_LENGTH * 3)
\* line 91
KeyRequestKey(key) == Slice(key, KEY_LENGTH * 2, KEY_LENGTH * 3)
\* line 99, the size a bundle must have
ExpectedSizeOrMore(d) == Len(d) >= 3 * KEY_LENGTH
ExpectedSize(d) == Len(d) = 3 * KEY_LENGTH
\* line 102
Ciphertext(d) == Slice(d, 0, KEY_LENGTH * 2)
\* line 103
MacCode(d) == Slice(d, KEY_LENGTH * 2, KEY_LENGTH * 3)
\* lines 104-105
AccountKeysStream(krk) ==
  derive_hkdf_sha256_key(krk, HKDF_SALT, kw(Name_accountKeys), KEY_LENGTH * 3)
\* line 106
HmacKey(stream) == Slice(stream, 0, KEY_LENGTH)
\* line 107
XorKey(stream) == Slice(stream, KEY_LENGTH, KEY_LENGTH * 3)
\* line 119 taking the first unit, kA, of the unmasked keys
WrapKbFirstUnit(xored) == Slice(xored, 0, KEY_LENGTH)
\* line 119
WrapKb(xored) == Slice(xored, KEY_LENGTH, KEY_LENGTH * 2)

\* lines 88-92
KeysCall ==
  \E cfg \in Configs(FALSE), token \in Tokens, built \in BOOLEAN :
    LET url == build_url(cfg.auth_url, "account/keys")
        key == KeyFetchStream(token)
    IN  /\ Start("keys", cfg, Prepare(url, built, "GET", key, JNull))
        /\ key_fetch_token' = token
        /\ key_request_key' = IF url.kind = "Ok" THEN KeyRequestKey(key) ELSE <<>>
        /\ UNCHANGED session_token

\* The bundle the account server sends for a key-fetch token: the account
\* keys masked with xorKey, followed by the HMAC of the masked keys.
ServerBundle(token, secret) ==
  LET bytes == AccountKeysStream(KeyRequestKey(KeyFetchStream(token)))
      ct == XoredWith(secret, XorKey(bytes))
  IN  ct \o HmacTag(HmacKey(bytes), ct)

\* the bytes with bit `bit` (0-based, 8 per byte) inverted
FlipBit(vec, bit) ==
  LET i == (bit \div 8) + 1
      w == 2^(bit % 8)
      b == vec[i]
  IN  [vec EXCEPT ![i] = IF (b \div w) % 2 = 1 THEN b - w ELSE b + w]

\* lengths, in bytes, of bundles that are not 3 units long
OtherLengths == {0, KEY_LENGTH, 2 * KEY_LENGTH, 3 * KEY_LENGTH - 1,
                 3 * KEY_LENGTH + 1, 4 * KEY_LENGTH}

Resize(vec, size) == [i \in 1..size |-> vec[((i - 1) % Len(vec)) + 1]]

\* What a server or an attacker on the path can put into "bundle": the
\* bundle itself, the bundle with one bit inverted, a bundle of another
\* length, and text that is no hex encoding.
Bundles(token) ==
  UNION { LET B == ServerBundle(token, secret) IN
      {[tamper |-> [kind |-> "none", pos |-> 0], chars |-> HexEncode(B)]}
      \cup {[tamper |-> [kind |-> "bit", pos |-> pos],
             chars |-> HexEncode(FlipBit(B, pos))] : pos \in 0..(8 * Len(B) - 1)}
      \cup {[tamper |-> [kind |-> "length", pos |-> n],
             chars |-> HexEncode(Resize(B, n))] : n \in OtherLengths}
      \cup {[tamper |-> [kind |-> "odd", pos |-> 0],
             chars |-> Tail(HexEncode(B))],
            [tamper |-> [kind |-> "nothex", pos |-> 0],
             chars |-> <<"x">> \o Tail(HexEncode(B))]}
    : secret \in Secrets }

\* The response type make_request is instantiated with.
ResponseType(o) ==
  CASE o = "login" -> "LoginResponse"
    [] o = "account_status" -> "AccountStatusResponse"
    [] o = "recovery_email_status" -> "RecoveryEmailStatusResponse"
    [] o = "sign" -> "SignResponse"
    [] o = "keys" -> "Value"

DirectOps == {"login", "account_status", "recovery_email_status", "sign", "keys"}

\* What can come back for the request of `o`.
Exchanges(o, token) ==
  {[resp |-> r, tamper |-> NoTamper] : r \in Responses(ResponseType(o))}
  \cup (IF o = "keys"
          THEN {[resp |-> [status |-> 200,
                           body |-> Json(JObj([bundle |-> JChars(b.chars)]))],
                 tamper |-> b.tamper] : b \in Bundles(token)}
               \cup {[resp |-> [status |-> st,
                                body |-> Json(JObj([bundle |-> JNum(7)]))],
                      tamper |-> NoTamper] : st \in {200, 400}}
          ELSE {})

\* make_request sending the request a second time after a network failure.
MakeRequestStepRetrying ==
  /\ op \in DirectOps /\ pc = "make_request"
  /\ \E x \in Exchanges(op, key_fetch_token) :
       LET r == make_request(x.resp, ResponseType(op)) IN
       /\ resp' = x.resp
       /\ tamper' = x.tamper
       /\ calls' = Append(calls, Step("make_request", r.kind = "Ok"))
       /\ IF x.resp = NetworkFailure /\ trips = 0
            THEN pc' = "make_request" /\ UNCHANGED <<ret, json>>
          ELSE IF op = "keys" /\ r.kind = "Ok"
            THEN json' = r.v /\ pc' = "bundle" /\ UNCHANGED ret
            ELSE ret' = r /\ pc' = "return" /\ UNCHANGED json
  /\ trips' = trips + 1
  /\ sent' = Append(sent, request)
  /\ UNCHANGED <<op, config, request, key_fetch_token, key_request_key, data,
                 session_token, audience, key_pair, certificate, assertion>>
  /\ UNCHANGED <<syncVars, deriveVars>>

\* FxAClient::make_request(request) as the last statement of login,
\* account_status, recovery_email_status and sign, and at line 93 of keys.
MakeRequestStep ==
  /\ op \in DirectOps /\ pc = "make_request"
  /\ \E x \in Exchanges(op, key_fetch_token) :
       LET r == make_request(x.resp, ResponseType(op)) IN
       /\ resp' = x.resp
       /\ tamper' = x.tamper
       /\ calls' = Append(calls, Step("make_request", r.kind = "Ok"))
       /\ IF op = "keys" /\ r.kind = "Ok"
            THEN json' = r.v /\ pc' = "bundle" /\ UNCHANGED ret
            ELSE ret' = r /\ pc' = "return" /\ UNCHANGED json
  /\ trips' = trips + 1
  /\ sent' = Append(sent, request)
  /\ UNCHANGED <<op, config, request, key_fetch_token, key_request_key, data,
                 session_token, audience, key_pair, certificate, assertion>>
  /\ UNCHANGED <<syncVars, deriveVars>>

\* the two errors keys reports with bail!(..) at lines 100 and 115
MalformedBundle == Msg("Data is not of the expected size.")
IntegrityCheckFailed == Msg("Bad HMAC!")

\* lines 94-101: the bundle member, its hex decoding, its length
KeysDecode ==
  /\ op = "keys" /\ pc = "bundle"
  /\ LET bundle == Get(json, "bundle") IN
     IF bundle.t # "str"
       THEN /\ calls' = Append(calls, Step("as_str", FALSE))
            /\ ret' = Err(JsonError) /\ pc' = "return" /\ UNCHANGED data
     ELSE IF ~HexDecodeOk(bundle.chars)
       THEN /\ calls' = calls \o <<Step("as_str", TRUE), Step("hex_decode", FALSE)>>
            /\ ret' = Err(FromHexError) /\ pc' = "return" /\ UNCHANGED data
     ELSE IF ~ExpectedSize(HexDecode(bundle.chars))
       THEN /\ calls' = calls \o <<Step("as_str", TRUE), Step("hex_decode", TRUE),
                                   Step("size", FALSE)>>
            /\ data' = HexDecode(bundle.chars)
            /\ ret' = Err(MalformedBundle)
            /\ pc' = "return"
     ELSE /\ calls' = calls \o <<Step("as_str", TRUE), Step("hex_decode", TRUE),
                                 Step("size", TRUE)>>
          /\ data' = HexDecode(bundle.chars)
          /\ pc' = "verify" /\ UNCHANGED ret
  /\ UNCHANGED <<op, trips, config, request, sent, resp, key_fetch_token,
                 key_request_key, json, tamper, session_token, audience,
                 key_pair, certificate, assertion>>
  /\ UNCHANGED <<syncVars, deriveVars>>

\* Lines 102-116 with the result of mac.verify ignored.
KeysVerifyIgnoringResult ==
  /\ op = "keys" /\ pc = "verify"
  /\ LET bytes == AccountKeysStream(key_request_key)
         verified == HmacVerify(HmacKey(bytes), Ciphertext(data), MacCode(data))
     IN  calls' = Append(calls, Step("hmac_verify", verified))
  /\ pc' = "unwrap"
  /\ UNCHANGED <<op, trips, config, request, sent, resp, ret, key_fetch_token,
                 key_request_key, json, data, tamper, session_token, audience,
                 key_pair, certificate, assertion>>
  /\ UNCHANGED <<syncVars, deriveVars>>

\* lines 102-116: the second derivation and the HMAC verification
KeysVerify ==
  /\ op = "keys" /\ pc = "verify"
  /\ LET bytes == AccountKeysStream(key_request_key)
         verified == HmacVerify(HmacKey(bytes), Ciphertext(data), MacCode(data))
     IN  /\ calls' = Append(calls, Step("hmac_verify", verified))
         /\ IF verified
              THEN pc' = "unwrap" /\ UNCHANGED ret
              ELSE pc' = "return" /\ ret' = Err(IntegrityCheckFailed)
  /\ UNCHANGED <<op, trips, config, request, sent, resp, key_fetch_token,
                 key_request_key, json, data, tamper, session_token, audience,
                 key_pair, certificate, assertion>>
  /\ UNCHANGED <<syncVars, deriveVars>>

\* lines 118-122: unmask and return the second unit
KeysUnwrap ==
  /\ op = "keys" /\ pc = "unwrap"
  /\ LET bytes == AccountKeysStream(key_request_key)
         xored_bytes == XoredWith(Ciphertext(data), XorKey(bytes))
     IN  /\ calls' = Append(calls, Step("xored_with", TRUE))
         /\ ret' = Ok([wrap_kb |-> WrapKb(xored_bytes)])
  /\ pc' = "return"
  /\ UNCHANGED <<op, trips, config, request, sent, resp, key_fetch_token,
                 key_request_key, json, data, tamper, session_token, audience,
                 key_pair, certificate, assertion>>
  /\ UNCHANGED <<syncVars, deriveVars>>

\* ------------------------------------------------------------------------
\* oauth_authorize (lines 132-148)
\* ------------------------------------------------------------------------
\* lines 133-134: the audience, then a fresh key pair; kp = 0 stands for a
\* failure of rsa::generate_keypair.
OAuthCall ==
  \E cfg \in Configs(TRUE), token \in Tokens, kp \in 0..NumKeyPairs :
    LET aud == get_oauth_audience(cfg) IN
    /\ op = "none"
    /\ op' = "oauth_authorize"
    /\ config' = cfg
    /\ session_token' = token
    /\ trips' = 0
    /\ sent' = <<>>
    /\ IF aud.kind = "Err"
         THEN /\ calls' = <<Step("get_oauth_audience", FALSE)>>
              /\ ret' = aud /\ pc' = "return"
              /\ UNCHANGED <<audience, key_pair>>
       ELSE IF kp = 0
         THEN /\ calls' = <<Step("get_oauth_audience", TRUE), Step("key_pair", FALSE)>>
              /\ ret' = Err(BrowserIDError("generate_keypair")) /\ pc' = "return"
              /\ audience' = aud.v
              /\ UNCHANGED key_pair
       ELSE /\ calls' = <<Step("get_oauth_audience", TRUE), Step("key_pair", TRUE)>>
            /\ ret' = NoRet /\ pc' = "sign"
            /\ audience' = aud.v
            /\ key_pair' = kp
    /\ UNCHANGED <<request, resp, key_fetch_token, key_request_key, json, data,
                   tamper, certificate, assertion>>
    /\ UNCHANGED <<syncVars, deriveVars>>

\* line 135, self.sign(session_token, key_pair.public_key()): lines 151-159
OAuthSignPrepare ==
  /\ op = "oauth_authorize" /\ pc = "sign"
  /\ \E json_ok \in BOOLEAN, built \in BOOLEAN :
       LET signing == SignPrepare(config, session_token, key_pair, json_ok, built) IN
       /\ calls' = calls \o signing.steps
       /\ request' = signing.request
       /\ ret' = signing.ret
       /\ pc' = IF signing.ret = NoRet THEN "sign.make_request" ELSE "return"
  /\ UNCHANGED <<op, trips, config, sent, resp, key_fetch_token,
                 key_request_key, json, data, tamper, session_token, audience,
                 key_pair, certificate, assertion>>
  /\ UNCHANGED <<syncVars, deriveVars>>

\* line 135 with the error of sign swallowed: the chain goes on with an
\* empty certificate.
OAuthSignRequestIgnoringError ==
  /\ op = "oauth_authorize" /\ pc = "sign.make_request"
  /\ \E r \in Responses("SignResponse") :
       LET res == make_request(r, "SignResponse") IN
       /\ resp' = r
       /\ calls' = Append(calls, Step("make_request", res.kind = "Ok"))
       /\ certificate' = IF res.kind = "Ok" THEN Get(res.v, "cert").s ELSE ""
  /\ pc' = "assertion"
  /\ trips' = trips + 1
  /\ sent' = Append(sent, request)
  /\ UNCHANGED <<op, config, request, ret, key_fetch_token, key_request_key, json,
                 data, tamper, session_token, audience, key_pair, assertion>>
  /\ UNCHANGED <<syncVars, deriveVars>>

\* line 160 for the sign of line 135, and `?.certificate`
OAuthSignRequest ==
  /\ op = "oauth_authorize" /\ pc = "sign.make_request"
  /\ \E r \in Responses("SignResponse") :
       LET res == make_request(r, "SignResponse") IN
       /\ resp' = r
       /\ calls' = Append(calls, Step("make_request", res.kind = "Ok"))
       /\ IF res.kind = "Ok"
            THEN /\ certificate' = Get(res.v, "cert").s
                 /\ pc' = "assertion"
                 /\ UNCHANGED ret
            ELSE /\ ret' = res
                 /\ pc' = "return"
                 /\ UNCHANGED certificate
  /\ trips' = trips + 1
  /\ sent' = Append(sent, request)
  /\ UNCHANGED <<op, config, request, key_fetch_token, key_request_key, json,
                 data, tamper, session_token, audience, key_pair, assertion>>
  /\ UNCHANGED <<syncVars, deriveVars>>

\* lines 136-146: jwt_utils::create_assertion(..)?, the parameters, the key,
\* the URL and the request for the OAuth service
OAuthAssertion ==
  /\ op = "oauth_authorize" /\ pc = "assertion"
  /\ \E assertion_ok \in BOOLEAN, built \in BOOLEAN :
       IF ~assertion_ok
         THEN /\ calls' = Append(calls, Step("create_assertion", FALSE))
              /\ ret' = Err(BrowserIDError("create_assertion"))
              /\ pc' = "return"
              /\ UNCHANGED <<assertion, request>>
       ELSE LET a == [private_key |-> key_pair, certificate |-> certificate,
                      audience |-> audience]
                p == Prepare(build_url(config.oauth_url, "authorization"), built,
                             "POST", derive_key_from_session_token(session_token),
                             [assertion |-> a, client_id |-> OAUTH_CLIENT_ID,
                              response_type |-> "token", scope |-> "profile"])
            IN  /\ calls' = calls \o <<Step("create_assertion", TRUE)>> \o p.steps
                /\ assertion' = a
                /\ request' = p.request
                /\ ret' = p.ret
                /\ pc' = IF p.ret = NoRet THEN "authorization.make_request"
                         ELSE "return"
  /\ UNCHANGED <<op, trips, config, sent, resp, key_fetch_token,
                 key_request_key, json, data, tamper, session_token, audience,
                 key_pair, certificate>>
  /\ UNCHANGED <<syncVars, deriveVars>>

\* line 147
OAuthAuthorize ==
  /\ op = "oauth_authorize" /\ pc = "authorization.make_request"
  /\ \E r \in Responses("OAuthAuthorizeResponse") :
       LET res == make_request(r, "OAuthAuthorizeResponse") IN
       /\ resp' = r
       /\ calls' = Append(calls, Step("make_request", res.kind = "Ok"))
       /\ ret' = res
  /\ pc' = "return"
  /\ trips' = trips + 1
  /\ sent' = Append(sent, request)
  /\ UNCHANGED <<op, config, request, key_fetch_token, key_request_key, json,
                 data, tamper, session_token, audience, key_pair, certificate,
                 assertion>>
  /\ UNCHANGED <<syncVars, deriveVars>>

ClientOps == DirectOps \cup {"oauth_authorize"}

\* The call returns `ret` (or unwinds with the panic); its locals are dropped.
ClientReturn ==
  /\ op \in ClientOps /\ pc = "return"
  /\ op' = "none"
  /\ pc' = "idle"
  /\ calls' = <<>>
  /\ trips' = 0
  /\ config' = NoConfig
  /\ request' = NoRequest
  /\ sent' = <<>>
  /\ resp' = NoResp
  /\ ret' = NoRet
  /\ key_fetch_token' = <<>>
  /\ key_request_key' = <<>>
  /\ json' = JNull
  /\ data' = <<>>
  /\ tamper' = NoTamper
  /\ session_token' = <<>>
  /\ audience' = NoAudience
  /\ key_pair' = 0
  /\ certificate' = ""
  /\ assertion' = NoAssertion
  /\ UNCHANGED <<syncVars, deriveVars>>

\* ------------------------------------------------------------------------
\* The context builders called on their own (lines 39-45): any purpose and
\* any email are accepted, both are plain &str.
\* ------------------------------------------------------------------------
Name_authPW == <<"a","u","t","h","P","W">>
Name_quickStretch == <<"q","u","i","c","k","S","t","r","e","t","c","h">>
Name_oldsync == <<"o","l","d","s","y","n","c">>

Purposes == {Name_keyFetchToken, Name_accountKeys, Name_sessionToken,
             Name_authPW, Name_quickStretch, Name_oldsync,
             <<"a">>, <<"a",":","b">>}

Emails == {<<>>, <<"b">>, <<"c">>, <<"b",":","c">>, <<"a","@","b",".","c">>}

KwCall ==
  /\ op = "none" /\ Len(contexts) < MaxContexts
  /\ \E name \in Purposes :
       contexts' = Append(contexts, [fn |-> "kw", name |-> name, email |-> <<>>,
                                     bytes |-> kw(name)])
  /\ UNCHANGED <<op, pc, calls, trips, syncVars, clientVars, pwdVars>>

KweCall ==
  /\ op = "none" /\ Len(contexts) < MaxContexts
  /\ \E name \in Purposes, email \in Emails :
       contexts' = Append(contexts, [fn |-> "kwe", name |-> name, email |-> email,
                                     bytes |-> kwe(name, email)])
  /\ UNCHANGED <<op, pc, calls, trips, syncVars, clientVars, pwdVars>>

\* ------------------------------------------------------------------------
\* quick_strech_pwd and auth_pwd of the tests (lines 251-265)
\* ------------------------------------------------------------------------
QUICK_STRETCH_ITERATIONS == 1000

TestEmail == <<"a","n","d","r","é","@","e","x","a","m","p","l","e",".","o","r","g">>
TestPwd == <<"p","ä","s","s","w","ö","r","d">>

\* the account of live_account_test (lines 284-285)
LiveEmail ==
  <<"t","e","s","t","f","x","a","r","u","s","t","c","l","i","e","n","t",
    "@","r","e","s","t","m","a","i","l",".","n","e","t">>

Credentials == {[email |-> TestEmail, pwd |-> TestPwd],
                [email |-> LiveEmail, pwd |-> LiveEmail]}
NoCredentials == [email |-> <<>>, pwd |-> <<>>]
NoSigningKey == [inner |-> <<>>, outer |-> <<>>]

PwdInit ==
  /\ credentials = NoCredentials
  /\ secret_key = NoSigningKey
  /\ iteration = 0
  /\ block_u = <<>>
  /\ out = <<>>
  /\ streched = <<>>
  /\ auth_pwd = <<>>

\* line 252 without the email
QuickStretchSaltWithoutEmail(address) == kw(Name_quickStretch)
\* line 252
QuickStretchSalt(address) == kwe(Name_quickStretch, address)

\* line 261
AuthPwContext == kw(Name_authPW)

\* auth_pwd(email, pwd) is called: lines 259 and 252-254, the first
\* iteration of pbkdf2::derive
AuthPwdCall ==
  /\ op = "none"
  /\ \E c \in Credentials :
       /\ credentials' = c
       /\ secret_key' = HmacSigningKey(AsBytes(c.pwd))
       /\ block_u' = Pbkdf2First(secret_key', QuickStretchSalt(c.email))
       /\ out' = block_u'
  /\ iteration' = 1
  /\ op' = "auth_pwd"
  /\ pc' = "pbkdf2"
  /\ UNCHANGED <<streched, auth_pwd, contexts>>
  /\ UNCHANGED <<calls, trips, syncVars, clientVars>>

\* line 254: one more iteration of pbkdf2::derive
Pbkdf2Iterate ==
  /\ op = "auth_pwd" /\ pc = "pbkdf2"
  /\ iteration < QUICK_STRETCH_ITERATIONS
  /\ block_u' = Pbkdf2Next(secret_key, block_u)
  /\ out' = XorBytes(out, block_u')
  /\ iteration' = iteration + 1
  /\ UNCHANGED <<op, pc, credentials, secret_key, streched, auth_pwd, contexts>>
  /\ UNCHANGED <<calls, trips, syncVars, clientVars>>

\* lines 255 and 259: out.to_vec() is `streched`
QuickStrechPwdReturn ==
  /\ op = "auth_pwd" /\ pc = "pbkdf2"
  /\ iteration = QUICK_STRETCH_ITERATIONS
  /\ streched' = out
  /\ pc' = "hkdf"
  /\ UNCHANGED <<op, credentials, secret_key, iteration, block_u, out, auth_pwd,
                 contexts>>
  /\ UNCHANGED <<calls, trips, syncVars, clientVars>>

\* lines 260-263: the empty salt, the context, 32 bytes, hex::encode
AuthPwdDerive ==
  /\ op = "auth_pwd" /\ pc = "hkdf"
  /\ auth_pwd' = HexEncode(derive_hkdf_sha256_key_exact(streched, <<>>,
                                                       AuthPwContext, 32))
  /\ pc' = "return"
  /\ UNCHANGED <<op, credentials, secret_key, iteration, block_u, out, streched,
                 contexts>>
  /\ UNCHANGED <<calls, trips, syncVars, clientVars>>

\* auth_pwd returns; its locals are dropped.
AuthPwdReturn ==
  /\ op = "auth_pwd" /\ pc = "return"
  /\ op' = "none"
  /\ pc' = "idle"
  /\ credentials' = NoCredentials
  /\ secret_key' = NoSigningKey
  /\ iteration' = 0
  /\ block_u' = <<>>
  /\ out' = <<>>
  /\ streched' = <<>>
  /\ auth_pwd' = <<>>
  /\ UNCHANGED contexts
  /\ UNCHANGED <<calls, trips, syncVars, clientVars>>

vars == <<op, pc, calls, trips, syncVars, clientVars, deriveVars>>

Init ==
  /\ op = "none"
  /\ pc = "idle"
  /\ calls = <<>>
  /\ result = "none"
  /\ trips = 0
  /\ SyncInit
  /\ ClientInit
  /\ contexts = <<>>
  /\ PwdInit

\* synchronize() alone
NextSync ==
  \/ SyncCall
  \/ Fetch
  \/ ApplyIncoming
  \/ AssertRetarget
  \/ NewFromChangeset
  \/ Upload
  \/ SyncFinished
  \/ SyncReturn

SpecSync == Init /\ [][NextSync]_vars

\* the FxAClient operations alone
NextClient ==
  \/ LoginCall
  \/ AccountStatusCall
  \/ RecoveryEmailStatusCall
  \/ SignCall
  \/ KeysCall
  \/ MakeRequestStep
  \/ KeysDecode
  \/ KeysVerify
  \/ KeysUnwrap
  \/ OAuthCall
  \/ OAuthSignPrepare
  \/ OAuthSignRequest
  \/ OAuthAssertion
  \/ OAuthAuthorize
  \/ ClientReturn

SpecClient == Init /\ [][NextClient]_vars

\* the context builders alone
NextContexts ==
  \/ KwCall
  \/ KweCall

SpecContexts == Init /\ [][NextContexts]_vars

\* the password derivation of the tests alone
NextAuthPwd ==
  \/ AuthPwdCall
  \/ Pbkdf2Iterate
  \/ QuickStrechPwdReturn
  \/ AuthPwdDerive
  \/ AuthPwdReturn

SpecAuthPwd == Init /\ [][NextAuthPwd]_vars

\* a caller that authenticates and synchronizes, one call at a time
Next ==
  \/ SyncCall
  \/ Fetch
  \/ ApplyIncoming
  \/ AssertRetarget
  \/ NewFromChangeset
  \/ Upload
  \/ SyncFinished
  \/ SyncReturn
  \/ LoginCall
  \/ AccountStatusCall
  \/ RecoveryEmailStatusCall
  \/ SignCall
  \/ KeysCall
  \/ MakeRequestStep
  \/ KeysDecode
  \/ KeysVerify
  \/ KeysUnwrap
  \/ OAuthCall
  \/ OAuthSignPrepare
  \/ OAuthSignRequest
  \/ OAuthAssertion
  \/ OAuthAuthorize
  \/ ClientReturn

Spec == Init /\ [][Next]_vars

\* ------------------------------------------------------------------------
\* Properties of synchronize()
\* ------------------------------------------------------------------------
Invoked(name) == \E i \in 1..Len(calls) : calls[i].step = name
Failed(name) == \E i \in 1..Len(calls) : calls[i] = Step(name, FALSE)
Succeeded(name) == \E i \in 1..Len(calls) : calls[i] = Step(name, TRUE)
Count(name) == Cardinality({i \in 1..Len(calls) : calls[i].step = name})
Failures == {i \in 1..Len(calls) : ~calls[i].ok}
InSync == op = "synchronize"

\* C1: if the upload step (new_from_changeset(...).upload()) fails,
\* store.sync_finished is not invoked in that call and the watermark the
\* store committed is the one it had when the call started.
C1_UploadFailureSkipsSyncFinished ==
  (InSync /\ (Failed("new_from_changeset") \/ Failed("upload")))
    => /\ ~Invoked("sync_finished")
       /\ sf_args = NoSfArgs
       /\ committed = pre_committed

C1_Witness ==
  InSync /\ pc = "return" /\ Failed("upload") /\ result = "Err(upload)"

\* C2: if the changeset returned by store.apply_incoming carries a timestamp
\* different from the input `timestamp`, the call aborts before the upload:
\* neither new_from_changeset/upload nor sync_finished is reached.
C2_WatermarkMismatchAborts ==
  (InSync /\ Succeeded("apply_incoming") /\ echoed # timestamp)
    => /\ ~Invoked("new_from_changeset")
       /\ ~Invoked("upload")
       /\ ~Invoked("sync_finished")
       /\ update = NoUpdate
       /\ pc \in {"assert", "return"}
       /\ (pc = "return" => result = "panic(assert_eq)")

C2_Witness ==
  InSync /\ pc = "return" /\ Succeeded("apply_incoming")
         /\ echoed # timestamp /\ result = "panic(assert_eq)"

\* C3: synchronize() stops at the first failing step: after a failed fetch
\* neither apply_incoming, the upload nor sync_finished is invoked (the store
\* is not touched); after a failed apply_incoming neither the upload nor
\* sync_finished is invoked.
C3_ShortCircuit ==
  InSync =>
    /\ Failed("fetch")
         => /\ calls = <<Step("fetch", FALSE)>>
            /\ echoed = NoTs /\ outgoing = NoChangeset
            /\ sf_args = NoSfArgs /\ committed = pre_committed
            /\ pc = "return" /\ result = "Err(fetch)"
    /\ Failed("apply_incoming")
         => /\ calls = <<Step("fetch", TRUE), Step("apply_incoming", FALSE)>>
            /\ update = NoUpdate /\ upload_info = NoUploadInfo
            /\ sf_args = NoSfArgs /\ committed = pre_committed
            /\ pc = "return" /\ result = "Err(apply_incoming)"

C3_Witness ==
  InSync /\ pc = "return" /\ Failed("fetch") /\ trips = 1

\* C4: when synchronize() invokes store.sync_finished it does so once, right
\* after a successful upload, with the upload result's modified_timestamp and
\* its successful_ids; no id of failed_ids is reported as synced.
C4_SyncFinishedArguments ==
  (InSync /\ Invoked("sync_finished"))
    => /\ Count("sync_finished") = 1
       /\ Count("upload") = 1
       /\ Len(calls) >= 2
       /\ calls[Len(calls)].step = "sync_finished"
       /\ calls[Len(calls) - 1] = Step("upload", TRUE)
       /\ sf_args.new_timestamp = upload_info.modified_timestamp
       /\ sf_args.records_synced = upload_info.successful_ids
       /\ sf_args.records_synced \cap upload_info.failed_ids = {}

C4_Witness ==
  InSync /\ Invoked("sync_finished") /\ upload_info.failed_ids # {}
         /\ upload_info.successful_ids # {}

\* C5: the changeset handed to the upload step carries the timestamp of the
\* incoming changeset fetched by the same call (not the input timestamp, not
\* the one the store echoed); its records are the ones the store returned and
\* the fully_atomic flag is the argument of the call.
C5_UploadRetargeted ==
  (InSync /\ Invoked("new_from_changeset"))
    => /\ Succeeded("fetch")
       /\ update.timestamp = incoming_changes.timestamp
       /\ update.changes = outgoing.changes
       /\ update.fully_atomic = fully_atomic

C5_Witness ==
  InSync /\ Invoked("upload") /\ incoming_changes.timestamp # timestamp
         /\ update.timestamp # echoed /\ update.changes # {} /\ update.fully_atomic

SyncOrder == <<"fetch", "apply_incoming", "assert_eq", "new_from_changeset",
               "upload", "sync_finished">>

\* C6: one call of synchronize() invokes each of fetch, apply_incoming, upload
\* and sync_finished at most once, in that order; it returns Ok only if all
\* of them were invoked and succeeded; otherwise it ends with the first (and
\* only) failure it met.
C6_NoRetryNoSwallow ==
  InSync =>
    /\ Len(calls) <= Len(SyncOrder)
    /\ \A i \in 1..Len(calls) : calls[i].step = SyncOrder[i]
    /\ result = "Ok" => /\ Len(calls) = Len(SyncOrder)
                        /\ \A i \in 1..Len(calls) : calls[i].ok
    /\ Failures # {} => /\ Failures = {Len(calls)}
                        /\ pc = "return"
                        /\ result \in {"Err(" \o calls[Len(calls)].step \o ")",
                                       "panic(" \o calls[Len(calls)].step \o ")"}
    /\ (pc = "return" /\ Failures = {}) => result = "Ok"

C6_Witness ==
  InSync /\ pc = "return" /\ result = "Ok" /\ trips = 2

\* ------------------------------------------------------------------------
\* Properties of FxAClient::keys
\* ------------------------------------------------------------------------
InKeys == op = "keys"
FetchedBundle == Get(json, "bundle")

\* the bundle fetched by this call is hex text for a number of bytes other
\* than 3 * KEY_LENGTH, and lines 94-101 have run
WrongLengthDecoded ==
  /\ InKeys /\ pc # "bundle"
  /\ FetchedBundle.t = "str"
  /\ HexDecodeOk(FetchedBundle.chars)
  /\ Len(FetchedBundle.chars) # 2 * 3 * KEY_LENGTH

\* C7: a fetched bundle whose decoded length is not 3 units (96 bytes) is
\* rejected with the error of line 100 (MalformedBundle), and the HMAC
\* verification is not run for it.
C7_WrongLengthRejectedBeforeHmac ==
  WrongLengthDecoded
    => /\ pc = "return"
       /\ ret = Err(MalformedBundle)
       /\ Len(data) # 3 * KEY_LENGTH
       /\ ~Invoked("hmac_verify")
       /\ ~Invoked("xored_with")

C7_Witness ==
  WrongLengthDecoded /\ tamper.kind = "length" /\ Len(data) > 3 * KEY_LENGTH
    /\ ret = Err(MalformedBundle)

\* hmacKey as the key-fetch token determines it: unit 0 of the stream
\* derived under "account/keys" from the last unit of the stream derived
\* from the token under "keyFetchToken"
TokenHmacKey ==
  SubSeq(derive_hkdf_sha256_key(
           SubSeq(derive_hkdf_sha256_key(key_fetch_token, HKDF_SALT,
                                         kw(Name_keyFetchToken), 96), 65, 96),
           HKDF_SALT, kw(Name_accountKeys), 96), 1, 32)

\* a 3-unit bundle was decoded and lines 102-116 have run
Verified == InKeys /\ Succeeded("size") /\ pc # "verify"

TagMismatch == SubSeq(data, 65, 96) # HmacTag(TokenHmacKey, SubSeq(data, 1, 64))

\* C8: for a 3-unit bundle whose last unit is not the HMAC of its first two
\* units under hmacKey, and so for a bundle of the server with one bit of
\* the tag or of the ciphertext inverted, keys fails with the error of line
\* 115 (IntegrityCheckFailed) and returns no wrap_kB.
C8_TamperEvident ==
  /\ (Verified /\ TagMismatch)
       => /\ pc = "return"
          /\ ret = Err(IntegrityCheckFailed)
          /\ ~Invoked("xored_with")
  /\ (InKeys /\ tamper.kind = "bit" /\ pc \notin {"bundle", "verify"})
       => /\ TagMismatch
          /\ ret = Err(IntegrityCheckFailed)

C8_Witness ==
  Verified /\ TagMismatch /\ tamper.kind = "bit" /\ tamper.pos < 8 * 64
    /\ ret = Err(IntegrityCheckFailed)

\* ------------------------------------------------------------------------
\* Properties of FxAClient::make_request
\* ------------------------------------------------------------------------
\* make_request has just returned for the response `resp`
JustDecoded ==
  /\ op \in ClientOps /\ Len(calls) > 0
  /\ calls[Len(calls)].step = "make_request"
  /\ resp # NetworkFailure

\* the response type of the request just answered
DecodedType ==
  IF op = "oauth_authorize"
    THEN (IF request.url.path = "certificate/sign" THEN "SignResponse"
          ELSE "OAuthAuthorizeResponse")
    ELSE ResponseType(op)

EnvelopeNum(k) ==
  IF resp.body.v.t = "obj" /\ k \in DOMAIN resp.body.v.f /\ resp.body.v.f[k].t = "num"
    THEN resp.body.v.f[k].n ELSE 0
EnvelopeStr(k) ==
  IF resp.body.v.t = "obj" /\ k \in DOMAIN resp.body.v.f /\ resp.body.v.f[k].t = "str"
    THEN resp.body.v.f[k].s ELSE ""

\* C9: for a response with a non-success status make_request returns an
\* error: the remote error made of the body's code, errno, error, message
\* and info when the body parses, the status error of the transport when it
\* does not; for a success status it returns the decoded body or a decode
\* error.
C9_ResponseDecoding ==
  JustDecoded =>
    IF ~is_success(resp.status)
      THEN /\ ret.kind = "Err"
           /\ pc = "return"
           /\ IF resp.body.parse
                THEN ret.e = [e |-> "RemoteError", code |-> EnvelopeNum("code"),
                              errno |-> EnvelopeNum("errno"),
                              error |-> EnvelopeStr("error"),
                              message |-> EnvelopeStr("message"),
                              info |-> EnvelopeStr("info")]
                ELSE ret.e = [e |-> "Reqwest", what |-> "status",
                              status |-> resp.status]
      ELSE \/ ret = Err([e |-> "Reqwest", what |-> "decode", status |-> resp.status])
           \/ /\ Decodes(DecodedType, resp.body)
              /\ \/ ret = Ok(resp.body.v)
                 \/ op = "keys" /\ json = resp.body.v /\ pc = "bundle"
                 \/ /\ op = "oauth_authorize" /\ pc = "assertion"
                    /\ certificate = resp.body.v.f["cert"].s

\* ------------------------------------------------------------------------
\* Network round trips per call
\* ------------------------------------------------------------------------
Returning == pc = "return"

\* C10 as stated: every call of synchronize() and of an FxAClient operation
\* makes exactly one network round trip before it returns.
C10_ExactlyOneRoundTrip ==
  Returning => trips = 1

\* C10 amended: login, account_status, keys, recovery_email_status and sign
\* make at most one round trip, and exactly one once the URL and the request
\* were built; oauth_authorize makes at most two, the certificate request and
\* then the authorization request, and two whenever it returns Ok;
\* synchronize() makes the fetch exchange and, when it gets to the upload,
\* the upload exchange, so two whenever it returns Ok.
C10_RoundTripsPerCall ==
  /\ op \in DirectOps
       => /\ trips = Count("make_request")
          /\ trips <= 1
          /\ (Returning /\ Succeeded("build")) => trips = 1
          /\ (Returning /\ ~Succeeded("build")) => trips = 0 /\ ret.kind = "Err"
  /\ op = "oauth_authorize"
       => /\ trips = Count("make_request")
          /\ trips = Len(sent)
          /\ trips <= 2
          /\ (Returning /\ ret.kind = "Ok")
               => /\ trips = 2
                  /\ sent[1].url.path = "certificate/sign"
                  /\ sent[2].url.path = "authorization"
  /\ op = "synchronize"
       => /\ trips = Count("fetch") + Count("upload")
          /\ trips <= 2
          /\ Returning => trips >= 1
          /\ (Returning /\ result = "Ok") => trips = 2

C10_Witness ==
  op = "oauth_authorize" /\ Returning /\ ret.kind = "Ok" /\ trips = 2

\* ------------------------------------------------------------------------
\* Properties of kw and kwe
\* ------------------------------------------------------------------------
Built(i) == i \in 1..Len(contexts)

SameOrigin(c1, c2) ==
  c1.fn = c2.fn /\ c1.name = c2.name /\ c1.email = c2.email

ColonFree(name) == \A k \in 1..Len(name) : name[k] # ":"

ColonFreeContextsDisjoint ==
  \A i, j \in 1..Len(contexts) :
    (/\ ColonFree(contexts[i].name) /\ ColonFree(contexts[j].name)
     /\ contexts[i].bytes = contexts[j].bytes)
      => SameOrigin(contexts[i], contexts[j])

\* xorKey as the key-fetch token determines it: units 1-2 of the stream
\* derived under "account/keys" from the key-request key
TokenXorKey ==
  SubSeq(derive_hkdf_sha256_key(
           SubSeq(derive_hkdf_sha256_key(key_fetch_token, HKDF_SALT,
                                         kw(Name_keyFetchToken), 96), 65, 96),
           HKDF_SALT, kw(Name_accountKeys), 96), 33, 96)

StepNames == [i \in 1..Len(calls) |-> calls[i].step]

KeysLadder == <<"make_request", "as_str", "hex_decode", "size", "hmac_verify",
                "xored_with">>

\* C13: keys returns Ok only at the end of the ladder: the bundle fetched
\* decoded to exactly 3 units, the HMAC of its first 2 units under hmacKey
\* is its last unit, the steps ran in this order and all succeeded, and the
\* wrap_kB returned is the second unit of the first 2 units XOR xorKey.
C13_KeysLadder ==
  (InKeys /\ ret.kind = "Ok")
    => /\ pc = "return"
       /\ FetchedBundle.t = "str" /\ HexDecodeOk(FetchedBundle.chars)
       /\ data = HexDecode(FetchedBundle.chars)
       /\ Len(data) = 3 * KEY_LENGTH
       /\ ~TagMismatch
       /\ Len(calls) >= Len(KeysLadder)
       /\ SubSeq(StepNames, Len(calls) - Len(KeysLadder) + 1, Len(calls)) = KeysLadder
       /\ \A i \in 1..Len(calls) : calls[i].ok
       /\ Len(sent) = 1 /\ sent[1].key = derive_hkdf_sha256_key(
                               key_fetch_token, HKDF_SALT, kw(Name_keyFetchToken), 96)
       /\ ret.v.wrap_kb = [i \in 1..KEY_LENGTH |->
                             XorByte(data[KEY_LENGTH + i], TokenXorKey[KEY_LENGTH + i])]

\* the server's own bundle is unwrapped to the wrap_kB the server masked
C13_Witness ==
  /\ InKeys /\ ret.kind = "Ok" /\ tamper.kind = "none"
  /\ \E secret \in Secrets : ret.v.wrap_kb = SubSeq(secret, KEY_LENGTH + 1, 2 * KEY_LENGTH)

\* ------------------------------------------------------------------------
\* Properties of FxAClient::oauth_authorize
\* ------------------------------------------------------------------------
InOAuth == op = "oauth_authorize"

AuthorizationSent ==
  \E i \in 1..Len(sent) : sent[i].url.path = "authorization"

\* the position in `calls` of the k-th make_request, 0 if there is none
RequestAt(k) ==
  LET at == {i \in 1..Len(calls) :
               /\ calls[i].step = "make_request"
               /\ Cardinality({j \in 1..i : calls[j].step = "make_request"}) = k}
  IN  IF at = {} THEN 0 ELSE CHOOSE i \in at : TRUE

StepAt(name) ==
  IF Invoked(name) THEN CHOOSE i \in 1..Len(calls) : calls[i].step = name ELSE 0

\* the audience of the configured OAuth URL: scheme, host and port
ConfiguredAudience ==
  [scheme |-> config.oauth_url.scheme, host |-> config.oauth_url.host,
   port |-> config.oauth_url.port]

\* C14: in oauth_authorize the audience and the key pair come before any
\* request; the first request is the certificate request for the public key
\* of that key pair; the authorization request comes second and carries the
\* assertion made of that key pair's private key, the certificate the sign
\* call returned and the audience; the call stops at the first step that
\* fails, so after a failed audience, key pair, sign or assertion no
\* authorization request is sent.
C14_DelegationChain ==
  InOAuth =>
    /\ \A i \in 1..(Len(calls) - 1) : calls[i].ok
    /\ (Len(calls) > 0 /\ ~calls[Len(calls)].ok)
         => pc = "return" /\ ret.kind # "Ok" /\ ret # NoRet
    /\ Len(sent) = Count("make_request")
    /\ Len(sent) >= 1
         => /\ calls[1] = Step("get_oauth_audience", TRUE)
            /\ calls[2] = Step("key_pair", TRUE)
            /\ RequestAt(1) > 2
            /\ audience = ConfiguredAudience /\ audience.host # ""
            /\ key_pair \in 1..NumKeyPairs
            /\ sent[1].url = [base |-> config.auth_url, path |-> "certificate/sign"]
            /\ sent[1].method = "POST"
            /\ sent[1].params = [publicKey |-> key_pair, duration |-> 86400000]
    /\ pc = "assertion"
         => /\ is_success(resp.status)
            /\ certificate = resp.body.v.f["cert"].s
            /\ ~AuthorizationSent
    /\ AuthorizationSent
         => /\ Len(sent) = 2
            /\ calls[RequestAt(1)].ok
            /\ RequestAt(1) < StepAt("create_assertion")
            /\ StepAt("create_assertion") < RequestAt(2)
            /\ Succeeded("to_json") /\ Succeeded("create_assertion")
            /\ sent[2].url = [base |-> config.oauth_url, path |-> "authorization"]
            /\ sent[2].method = "POST"
            /\ sent[2].params.assertion =
                 [private_key |-> key_pair, certificate |-> certificate,
                  audience |-> ConfiguredAudience]
            /\ certificate \in {"cert1", "cert2"}
            /\ sent[2].params.client_id = OAUTH_CLIENT_ID
    /\ (\/ Failed("get_oauth_audience") \/ Failed("key_pair") \/ Failed("to_json")
        \/ Failed("create_assertion")
        \/ (RequestAt(1) > 0 /\ ~calls[RequestAt(1)].ok))
         => /\ ~AuthorizationSent
            /\ pc = "return" /\ ret.kind # "Ok"

C14_Witness ==
  /\ InOAuth /\ AuthorizationSent /\ ret.kind = "Ok"
  /\ key_pair = 2 /\ certificate = "cert2" /\ audience.port = 8443
  /\ sent[2].params.assertion.certificate = "cert2"

\* a failed sign ends the call with one request sent and none to the OAuth
\* service
C14_WitnessSignFailed ==
  /\ InOAuth /\ pc = "return" /\ Len(sent) = 1 /\ ret.kind = "Err"
  /\ ~AuthorizationSent

\* ------------------------------------------------------------------------
\* Properties of the password derivation
\* ------------------------------------------------------------------------
\* the two literals of the tests (lines 272 and 280)
QuickStretchHex ==
  <<"e","4","e","8","8","8","9","b","d","8","b","d","6","1","a","d",
    "6","d","e","6","b","9","5","c","0","5","9","d","5","6","e","7",
    "b","5","0","d","a","c","d","a","f","6","2","b","d","8","4","6",
    "4","4","a","f","7","e","2","a","d","d","8","4","3","4","5","d">>
AuthPwHex ==
  <<"2","4","7","b","6","7","5","f","f","b","4","c","4","6","3","1",
    "0","b","c","8","7","e","2","6","d","7","1","2","1","5","3","a",
    "b","e","5","e","1","c","9","0","e","f","0","0","a","4","7","8",
    "4","5","9","4","f","9","7","e","f","5","4","f","2","3","7","5">>

InAuthPwd == op = "auth_pwd"

\* C12: for the email and password of the tests the quick-stretch output,
\* 1000 iterations of PBKDF2-HMAC-SHA256 salted with kwe("quickStretch",
\* email), is the 32 bytes whose hex text is the literal of line 272, and
\* the authentication password, the hex text of HKDF-SHA256 of it with the
\* empty salt and kw("authPW") for 32 bytes, is the literal of line 280;
\* both have exactly the requested length.
C12_DerivationVectors ==
  /\ (InAuthPwd /\ pc \in {"hkdf", "return"})
       => /\ iteration = 1000
          /\ Len(streched) = 32
          /\ \A i \in 1..32 : streched[i] \in 0..255
          /\ (credentials = [email |-> TestEmail, pwd |-> TestPwd]
                => HexEncode(streched) = QuickStretchHex)
  /\ (InAuthPwd /\ pc = "return")
       => /\ Len(auth_pwd) = 2 * 32
          /\ HexDecodeOk(auth_pwd)
          /\ (credentials = [email |-> TestEmail, pwd |-> TestPwd]
                => auth_pwd = AuthPwHex)

C12_Witness ==
  /\ InAuthPwd /\ pc = "return"
  /\ credentials = [email |-> TestEmail, pwd |-> TestPwd]
  /\ HexEncode(streched) = QuickStretchHex
  /\ auth_pwd = AuthPwHex

====
